---- MODULE Spec2Model ----
(***************************************************************************)
(* Model of the JIRA tool gateway of app/tools/jira.py: the two coroutines *)
(* get_jira_issue and create_jira_issue, run as concurrent invocations by  *)
(* the FastMCP transport.                                                  *)
(*                                                                         *)
(* Representation.  A Python string is a sequence of text tokens whose     *)
(* concatenation is the string; every "/" of a URL is a token of its own   *)
(* and the long response bodies are sequences of one-character tokens, so  *)
(* rstrip and slicing act on them as they act on characters (the JSON      *)
(* bodies, shorter than either excerpt, are written in larger tokens).     *)
(* The emoji of the tool's messages are written in ASCII: "(x)" for the    *)
(* cross mark, "(ok)" for the check mark, "(issue)" for the clipboard.  A  *)
(* value that may be None is a record: None, or Some(v).  The exit of an   *)
(* "async with" block is taken as one step of its coroutine.               *)
(***************************************************************************)
EXTENDS Integers, Sequences, FiniteSets, TLC

\* ------------------------------------------------------------------ bounds
NumInv == 2          \* concurrent invocations in Spec
MaxSlashes == 2      \* trailing "/" on an x-jira-url value
MaxLabels == 2       \* labels passed to create_jira_issue
MaxOver == 1         \* response-body characters beyond the longest excerpt

\* ------------------------------------------------------ program constants
GetExcerpt == 200
CreateExcerpt == 300
GetTimeout == 15
CreateTimeout == 20

\* --------------------------------------------------------- Python values
None == [none |-> TRUE]
Some(v) == [none |-> FALSE, v |-> v]
\* bool(v) for None, str and list values
Truthy(x) == (~x.none) /\ x.v # <<>>

Min(a, b) == IF a < b THEN a ELSE b

\* s[:n]
Take(s, n) == SubSeq(s, 1, Min(n, Len(s)))

\* s.rstrip("/")
RECURSIVE RStrip(_)
RStrip(s) ==
  IF s # <<>> /\ s[Len(s)] = "/" THEN RStrip(SubSeq(s, 1, Len(s) - 1)) ELSE s

\* sep.join(items)
RECURSIVE Join(_, _)
Join(items, sep) ==
  IF items = <<>> THEN <<>>
  ELSE IF Len(items) = 1 THEN <<items[1]>>
  ELSE <<items[1], sep>> \o Join(Tail(items), sep)

\* n copies of the character c
Rep(c, n) == [k \in 1..n |-> c]

Contains(s, tok) == \E k \in 1..Len(s) : s[k] = tok

\* the contiguous occurrence of part in s
HasSub(s, part) ==
  \E k \in 0..(Len(s) - Len(part)) : SubSeq(s, k + 1, k + Len(part)) = part

\* ------------------------------------------------------ credential headers
HeaderNames == <<"x-jira-url", "x-jira-email", "x-jira-token">>

\* headers.get(name): the request's header dict is a function on the names
\* that were sent
HGet(h, name) == IF name \in DOMAIN h THEN Some(h[name]) ELSE None

\* not all([jira_url, jira_email, jira_token])
CredsIncomplete(h) == \E k \in 1..3 : ~Truthy(HGet(h, HeaderNames[k]))

MissingNoneOnly(h) ==
  SelectSeq(HeaderNames, LAMBDA n : HGet(h, n).none)

\* [k for k, v in {...}.items() if not v]: dict order is insertion order
Missing(h) ==
  SelectSeq(HeaderNames, LAMBDA n : ~Truthy(HGet(h, n)))

GetMissingMsg(h) ==
  <<"(x)", " Missing required headers: ">> \o Join(Missing(h), ", ")

CreateMissingMsg(h) ==
  <<"(x)", " Missing headers: ">> \o Join(Missing(h), ", ")

\* ------------------------------------------------- outcome of running code
Ret(msg) == [kind |-> "return", value |-> msg]
Raise(cls, msg) == [kind |-> "raise", cls |-> cls, msg |-> msg]

\* ------------------------------------------------------------ JSON values
JNull == [j |-> "null"]
JStr(s) == [j |-> "string", v |-> s]
JArr(a) == [j |-> "array", v |-> a]
JObj(f) == [j |-> "object", v |-> f]
EmptyObj == JObj(<<>>)

\* bool(v) of a parsed JSON value
JTruthy(x) ==
  CASE x.j = "null" -> FALSE
    [] x.j = "string" -> x.v # <<>>
    [] x.j = "array" -> x.v # <<>>
    [] x.j = "object" -> DOMAIN x.v # {}

\* d.get(k, default) on a dict
DGet(d, k, default) == IF k \in DOMAIN d.v THEN d.v[k] ELSE default

\* str(v) as an f-string renders a parsed JSON value
Fmt(x) ==
  CASE x.j = "string" -> x.v
    [] x.j = "null" -> <<"None">>
    [] x.j = "array" -> <<"[">> \o x.v \o <<"]">>
    [] x.j = "object" -> <<"{...}">>

\* the AttributeError of x.get on a value that is no dict
NoGetMsg(x) ==
  CASE x.j = "null" -> <<"'NoneType' object has no attribute 'get'">>
    [] x.j = "string" -> <<"'str' object has no attribute 'get'">>
    [] x.j = "array" -> <<"'list' object has no attribute 'get'">>
    [] x.j = "object" -> <<>>

\* the TypeError of x["name"] on a value that is no dict
NoItemMsg(x) ==
  CASE x.j = "null" -> <<"'NoneType' object is not subscriptable">>
    [] x.j = "string" -> <<"string indices must be integers, not 'str'">>
    [] x.j = "array" -> <<"list indices must be integers or slices, not str">>
    [] x.j = "object" -> <<>>

\* ------------------------------------------------- backend response bodies
TextIssueFull ==
  <<"{", "\"key\":", "\"KAN-2\"", ",", "\"fields\":", "{", "\"summary\":",
    "\"Fix bug\"", ",", "\"status\":", "{\"name\":\"Open\"}", ",",
    "\"assignee\":", "{\"displayName\":\"Ann\"}", "}", "}">>
TextIssueNoAssignee ==
  <<"{", "\"key\":", "\"KAN-2\"", ",", "\"fields\":", "{", "\"summary\":",
    "\"Fix bug\"", ",", "\"status\":", "{\"name\":\"Open\"}", "}", "}">>
TextIssueNullAssignee ==
  <<"{", "\"key\":", "\"KAN-2\"", ",", "\"fields\":", "{",
    "\"assignee\":", "null", "}", "}">>
TextIssueBareAssignee ==
  <<"{", "\"key\":", "\"KAN-2\"", ",", "\"fields\":", "{",
    "\"assignee\":", "\"ann\"", "}", "}">>
TextIssueNullStatus ==
  <<"{", "\"key\":", "\"KAN-2\"", ",", "\"fields\":", "{",
    "\"status\":", "null", "}", "}">>
TextIssueNullFields == <<"{", "\"key\":", "\"KAN-2\"", ",", "\"fields\":", "null", "}">>
TextIssueNoKey == <<"{", "\"fields\":", "{", "}", "}">>
TextKeyOnly == <<"{", "\"key\":", "\"KAN-9\"", "}">>
TextEmptyObj == <<"{", "}">>
TextEmptyArr == <<"[", "]">>
TextNull == <<"null">>

Tok(s) == JStr(<<s>>)

\* resp.json(): the parse of the bodies above; any other text here is a
\* run of "x" characters, which is no JSON
Json(text) ==
  CASE text = TextIssueFull ->
         Ret(JObj([key |-> Tok("KAN-2"),
                   fields |-> JObj([summary |-> Tok("Fix bug"),
                                    status |-> JObj([name |-> Tok("Open")]),
                                    assignee |-> JObj([displayName |-> Tok("Ann")])])]))
    [] text = TextIssueNoAssignee ->
         Ret(JObj([key |-> Tok("KAN-2"),
                   fields |-> JObj([summary |-> Tok("Fix bug"),
                                    status |-> JObj([name |-> Tok("Open")])])]))
    [] text = TextIssueNullAssignee ->
         Ret(JObj([key |-> Tok("KAN-2"), fields |-> JObj([assignee |-> JNull])]))
    [] text = TextIssueBareAssignee ->
         Ret(JObj([key |-> Tok("KAN-2"), fields |-> JObj([assignee |-> Tok("ann")])]))
    [] text = TextIssueNullStatus ->
         Ret(JObj([key |-> Tok("KAN-2"), fields |-> JObj([status |-> JNull])]))
    [] text = TextIssueNullFields ->
         Ret(JObj([key |-> Tok("KAN-2"), fields |-> JNull]))
    [] text = TextIssueNoKey -> Ret(JObj([fields |-> EmptyObj]))
    [] text = TextKeyOnly -> Ret(JObj([key |-> Tok("KAN-9")]))
    [] text = TextEmptyObj -> Ret(EmptyObj)
    [] text = TextEmptyArr -> Ret(JArr(<<>>))
    [] text = TextNull -> Ret(JNull)
    [] OTHER -> Raise("JSONDecodeError", <<"Expecting value: line 1 column 1 (char 0)">>)

\* ---------------------------------------------------------------- strip()
IsSpace(tok) == tok \in {" ", "\n", "\n\n", "            ", "                "}

RECURSIVE LStrip(_)
LStrip(s) == IF s # <<>> /\ IsSpace(s[1]) THEN LStrip(Tail(s)) ELSE s

RECURSIVE RStripSpace(_)
RStripSpace(s) ==
  IF s # <<>> /\ IsSpace(s[Len(s)]) THEN RStripSpace(SubSeq(s, 1, Len(s) - 1)) ELSE s

Strip(s) == RStripSpace(LStrip(s))

\* --------------------------------------------- get_jira_issue, lines 39-60
\* lines 46-60: parse the body and format the summary
GetParse(text) ==
  LET parsed == Json(text) IN
  IF parsed.kind = "raise" THEN parsed
  ELSE LET data == parsed.value IN
  IF data.j # "object" THEN Raise("TypeError", NoItemMsg(data))
  ELSE IF "fields" \notin DOMAIN data.v THEN Raise("KeyError", <<"'fields'">>)
  ELSE LET fields == data.v["fields"] IN
  IF fields.j # "object" THEN Raise("AttributeError", NoGetMsg(fields))
  ELSE LET summary == DGet(fields, "summary", Tok("No summary"))
           statusObj == DGet(fields, "status", EmptyObj)
       IN
  IF statusObj.j # "object" THEN Raise("AttributeError", NoGetMsg(statusObj))
  ELSE LET status == DGet(statusObj, "name", Tok("Unknown"))
           assignee == DGet(fields, "assignee", JNull)
       IN
  IF JTruthy(assignee) /\ assignee.j # "object"
    THEN Raise("AttributeError", NoGetMsg(assignee))
  ELSE LET assignee_name ==
             IF JTruthy(assignee) THEN DGet(assignee, "displayName", Tok("Unassigned"))
             ELSE Tok("Unassigned")
       IN
  IF "key" \notin DOMAIN data.v THEN Raise("KeyError", <<"'key'">>)
  ELSE Ret(Strip(<<"\n", "(issue)", " **JIRA Issue: ">> \o Fmt(data.v["key"])
                 \o <<"**", "\n\n", "(pin) **Summary:** ">> \o Fmt(summary)
                 \o <<"\n", "(chart) **Status:** ">> \o Fmt(status)
                 \o <<"\n", "(person) **Assignee:** ">> \o Fmt(assignee_name)
                 \o <<"\n", "            ">>))

GetOnResponseAny2xx(issue_key, status, text) ==
  IF status = 404
    THEN Ret(<<"(x)", " Issue '">> \o issue_key \o <<"' ", "not found", ".">>)
  ELSE IF status = 401
    THEN Ret(<<"(x)", " ", "Authentication failed",
               " - check your email and API token.">>)
  ELSE IF status < 200 \/ status > 299
    THEN Ret(<<"(x)", " JIRA error ", ToString(status), ": ">> \o Take(text, GetExcerpt))
  ELSE GetParse(text)

\* lines 39-60: what the body of the async with does with a response
GetOnResponse(issue_key, status, text) ==
  IF status = 404
    THEN Ret(<<"(x)", " Issue '">> \o issue_key \o <<"' ", "not found", ".">>)
  ELSE IF status = 401
    THEN Ret(<<"(x)", " ", "Authentication failed",
               " - check your email and API token.">>)
  ELSE IF status # 200
    THEN Ret(<<"(x)", " JIRA error ", ToString(status), ": ">> \o Take(text, GetExcerpt))
  ELSE GetParse(text)

\* ----------------------------------------- create_jira_issue, lines 106-155
BuildPayloadAnyList(project_key, summary, description, issue_type, assignee_email, labels) ==
  LET fields ==
        [project |-> [key |-> project_key],
         summary |-> summary,
         description |->
           [type |-> "doc", version |-> 1,
            content |-> <<[type |-> "paragraph",
                           content |-> <<[type |-> "text", text |-> description]>>]>>],
         issuetype |-> [name |-> issue_type]]
      withAssignee ==
        IF Truthy(assignee_email)
          THEN fields @@ ("assignee" :> [accountId |-> None])
          ELSE fields
      withLabels ==
        IF ~labels.none THEN withAssignee @@ ("labels" :> labels.v) ELSE withAssignee
  IN [fields |-> withLabels]

\* lines 106-129
BuildPayload(project_key, summary, description, issue_type, assignee_email, labels) ==
  LET fields ==
        [project |-> [key |-> project_key],
         summary |-> summary,
         description |->
           [type |-> "doc", version |-> 1,
            content |-> <<[type |-> "paragraph",
                           content |-> <<[type |-> "text", text |-> description]>>]>>],
         issuetype |-> [name |-> issue_type]]
      withAssignee ==
        IF Truthy(assignee_email)
          THEN fields @@ ("assignee" :> [accountId |-> None])
          ELSE fields
      withLabels ==
        IF Truthy(labels) THEN withAssignee @@ ("labels" :> labels.v) ELSE withAssignee
  IN [fields |-> withLabels]

\* lines 141-151
CreateParse(base_url, summary, issue_type, text) ==
  LET parsed == Json(text) IN
  IF parsed.kind = "raise" THEN parsed
  ELSE LET data == parsed.value IN
  IF data.j # "object" THEN Raise("TypeError", NoItemMsg(data))
  ELSE IF "key" \notin DOMAIN data.v THEN Raise("KeyError", <<"'key'">>)
  ELSE LET key == Fmt(data.v["key"])
           issue_url == base_url \o <<"/", "browse", "/">> \o key
       IN Ret(Strip(<<"\n", "(ok)", " **JIRA Issue Created Successfully!**", "\n\n",
                      "(issue) **Key:** ">> \o key
                    \o <<"\n", "(link) **Link:** ">> \o issue_url
                    \o <<"\n", "(pin) **Summary:** ">> \o summary
                    \o <<"\n", "(chart) **Type:** ">> \o issue_type
                    \o <<"\n", "                ">>))

CreateOnResponseAny2xx(base_url, summary, issue_type, status, text) ==
  IF status >= 200 /\ status <= 299
    THEN CreateParse(base_url, summary, issue_type, text)
  ELSE Ret(<<"(x)", " Failed to create issue: ", ToString(status), "\n">>
           \o Take(text, CreateExcerpt))

\* lines 140-155
CreateOnResponse(base_url, summary, issue_type, status, text) ==
  IF status \in {200, 201}
    THEN CreateParse(base_url, summary, issue_type, text)
  ELSE Ret(<<"(x)", " Failed to create issue: ", ToString(status), "\n">>
           \o Take(text, CreateExcerpt))

\* ------------------------------------------------------ exception handlers
\* httpx.TimeoutException and its subclasses
TimeoutClasses == {"TimeoutException", "ConnectTimeout", "ReadTimeout",
                   "WriteTimeout", "PoolTimeout"}

\* the classes below BaseException that are not below Exception
BaseOnlyClasses == {"CancelledError", "KeyboardInterrupt", "SystemExit", "GeneratorExit"}

IsTimeout(cls) == cls \in TimeoutClasses
IsException(cls) == cls \notin BaseOnlyClasses

GetTimeoutMsg == <<"(x)", " ", "Timeout", " reaching JIRA server">>
CreateTimeoutMsg == <<"(x)", " ", "Timeout", " while creating issue">>
UnexpectedMsg(msg) == <<"(x)", " Unexpected error: ">> \o msg

ExceptOnlyTimeout(tool, out) ==
  IF out.kind = "return" THEN out
  ELSE IF IsTimeout(out.cls)
    THEN Ret(IF tool = "get" THEN GetTimeoutMsg ELSE CreateTimeoutMsg)
  ELSE out

ExceptGenericFirst(tool, out) ==
  IF out.kind = "return" THEN out
  ELSE IF IsException(out.cls) THEN Ret(UnexpectedMsg(out.msg))
  ELSE out

\* lines 62-65 and 157-160: the except clauses around the body
Except(tool, out) ==
  IF out.kind = "return" THEN out
  ELSE IF IsTimeout(out.cls)
    THEN Ret(IF tool = "get" THEN GetTimeoutMsg ELSE CreateTimeoutMsg)
  ELSE IF IsException(out.cls) THEN Ret(UnexpectedMsg(out.msg))
  ELSE out

\* ------------------------------------------------------------------ state
Inv == 1..NumInv

VARIABLES
  pc,          \* pc[i]: "idle", "received", "awaiting" or "done"
  ctx,         \* ctx[i]: the HTTP headers of the request that invokes i
  args,        \* args[i]: the tool and its arguments
  frame,       \* frame[i]: the locals of the coroutine that outlive the await
  clientOpen,  \* clientOpen[i]: the httpx.AsyncClient of i is open
  requests,    \* requests[i]: the HTTP requests i has issued, in order
  pending,     \* pending[i]: the event that resolves the await of i
  outcome      \* outcome[i]: how the coroutine ended

vars == <<pc, ctx, args, frame, clientOpen, requests, pending, outcome>>

NoCall == [tool |-> "none"]
NoFrame == [base_url |-> <<>>]
NoEvent == [ev |-> "none"]
NoOutcome == [kind |-> "none"]

Init ==
  /\ pc = [i \in Inv |-> "idle"]
  /\ ctx = [i \in Inv |-> <<>>]
  /\ args = [i \in Inv |-> NoCall]
  /\ frame = [i \in Inv |-> NoFrame]
  /\ clientOpen = [i \in Inv |-> FALSE]
  /\ requests = [i \in Inv |-> <<>>]
  /\ pending = [i \in Inv |-> NoEvent]
  /\ outcome = [i \in Inv |-> NoOutcome]

\* ------------------------------------------------------------- the inputs
Slashes(n) == Rep("/", n)
HostA == <<"https:", "/", "/", "a.example">>
HostB == <<"https:", "/", "/", "b.example">>

\* a header dict from three optional values: an absent header is no key
Hdrs(url, email, token) ==
  LET given == {p \in {<<"x-jira-url", url>>, <<"x-jira-email", email>>,
                       <<"x-jira-token", token>>} : ~p[2].none}
  IN [n \in {p[1] : p \in given} |-> (CHOOSE p \in given : p[1] = n)[2].v]

GetArgs(issue_key) == [tool |-> "get", issue_key |-> issue_key]
CreateArgs(project_key, summary, description, issue_type, assignee_email, labels) ==
  [tool |-> "create", project_key |-> project_key, summary |-> summary,
   description |-> description, issue_type |-> issue_type,
   assignee_email |-> assignee_email, labels |-> labels]

\* the requests of the concurrent specification: two tenants, and one
\* request that lacks its token
TenantA == Hdrs(Some(HostA \o <<"/">>), Some(<<"a@x">>), Some(<<"ta">>))
TenantB == Hdrs(Some(HostB), Some(<<"b@x">>), Some(<<"tb">>))
ConcHeaders == {TenantA, TenantB, Hdrs(Some(HostA), Some(<<"a@x">>), None)}
ConcArgs ==
  {GetArgs(<<"KAN-2">>),
   CreateArgs(<<"KAN">>, <<"Fix bug">>, <<"It breaks">>, <<"Task">>, None, None)}
ConcResponses == {<<200, TextKeyOnly>>, <<500, <<"x">>>>}

\* the requests of the sequential specification
SeqUrls ==
  {None, Some(<<>>)}
    \cup {Some(HostA \o Slashes(n)) : n \in 0..MaxSlashes}
    \cup {Some(Slashes(n)) : n \in 1..MaxSlashes}
SeqHeaders ==
  {Hdrs(u, e, t) : u \in SeqUrls, e \in {None, Some(<<>>), Some(<<"a@x">>)},
                   t \in {None, Some(<<>>), Some(<<"ta">>)}}
LabelNames == {"bug", "ui"}
LabelLists == UNION {[1..n -> LabelNames] : n \in 0..MaxLabels}
SeqArgs ==
  {GetArgs(<<"KAN-2">>)}
    \cup {CreateArgs(<<"KAN">>, <<"Fix bug">>, <<"It breaks">>, it, ae, lb) :
            it \in {<<"Task">>, <<"Bug">>},
            ae \in {None, Some(<<>>), Some(<<"ann@x">>)},
            lb \in {None} \cup {Some(l) : l \in LabelLists}}
SeqStatuses == {200, 201, 204, 400, 401, 404}
SeqTexts ==
  {TextIssueFull, TextIssueNoAssignee, TextIssueNullAssignee, TextIssueBareAssignee,
   TextIssueNullStatus, TextIssueNullFields, TextIssueNoKey, TextKeyOnly,
   TextEmptyObj, TextEmptyArr, TextNull, <<>>}
    \cup {Rep("x", n) : n \in {1, GetExcerpt, GetExcerpt + 1, CreateExcerpt}}
    \cup {Rep("x", CreateExcerpt + n) : n \in 1..MaxOver}
SeqResponses == SeqStatuses \X SeqTexts

\* ------------------------------------------------------------ the actions
get_http_headers_first(i) == ctx[1]

\* lines 14 and 89: fastmcp's get_http_headers() reads the headers of the
\* HTTP request in whose context the coroutine runs
get_http_headers(i) == ctx[i]

\* httpx sends only to an absolute http or https URL; for any other it
\* raises UnsupportedProtocol before anything leaves the process
Sendable(url) ==
  /\ Len(url) >= 4
  /\ url[1] \in {"http:", "https:"}
  /\ url[2] = "/" /\ url[3] = "/" /\ url[4] # "/"

ClientSendRetry(req) == <<req, req>>

\* lines 32-37 and 132-138: one awaited client.get / client.post
ClientSend(req) == <<req>>

ClientOpenAfterNoFinally(bodyOut) == bodyOut.kind = "raise"

\* lines 31 and 131: __aexit__ of "async with" closes the client however
\* the body ended
ClientOpenAfter(bodyOut) == FALSE

\* lines 28-37 and 102-138: the request the coroutine builds
BuildRequest(a, h) ==
  LET base_url == RStrip(h["x-jira-url"])
      auth == <<h["x-jira-email"], h["x-jira-token"]>>
  IN IF a.tool = "get"
       THEN [method |-> "GET",
             url |-> base_url \o <<"/", "rest", "/", "api", "/", "3", "/", "issue", "/">>
                       \o a.issue_key,
             auth |-> auth,
             headers |-> {<<"Accept", "application/json">>},
             json |-> None,
             timeout |-> GetTimeout]
       ELSE [method |-> "POST",
             url |-> base_url \o <<"/", "rest", "/", "api", "/", "3", "/", "issue">>,
             auth |-> auth,
             headers |-> {<<"Accept", "application/json">>,
                          <<"Content-Type", "application/json">>},
             json |-> Some(BuildPayload(a.project_key, a.summary, a.description,
                                        a.issue_type, a.assignee_email, a.labels)),
             timeout |-> CreateTimeout]

UnsupportedProtocol ==
  Raise("UnsupportedProtocol",
        <<"Request URL is missing an 'http://' or 'https://' protocol.">>)

\* the transport accepts a tool call and schedules its coroutine
Receive(i, h, a) ==
  /\ pc[i] = "idle"
  /\ pc' = [pc EXCEPT ![i] = "received"]
  /\ ctx' = [ctx EXCEPT ![i] = h]
  /\ args' = [args EXCEPT ![i] = a]
  /\ UNCHANGED <<frame, clientOpen, requests, pending, outcome>>

\* lines 13-37 and 88-138: the coroutine runs up to its await
Start(i) ==
  /\ pc[i] = "received"
  /\ LET h == get_http_headers(i)
         a == args[i]
     IN IF CredsIncomplete(h)
          THEN /\ outcome' = [outcome EXCEPT ![i] =
                   Ret(IF a.tool = "get" THEN GetMissingMsg(h) ELSE CreateMissingMsg(h))]
               /\ pc' = [pc EXCEPT ![i] = "done"]
               /\ UNCHANGED <<frame, clientOpen, requests>>
        ELSE LET req == BuildRequest(a, h) IN
             /\ frame' = [frame EXCEPT ![i] = [base_url |-> RStrip(h["x-jira-url"])]]
             /\ IF Sendable(req.url)
                  THEN /\ requests' = [requests EXCEPT ![i] = @ \o ClientSend(req)]
                       /\ clientOpen' = [clientOpen EXCEPT ![i] = TRUE]
                       /\ pc' = [pc EXCEPT ![i] = "awaiting"]
                       /\ UNCHANGED outcome
                ELSE /\ outcome' = [outcome EXCEPT ![i] =
                           Except(a.tool, UnsupportedProtocol)]
                     /\ clientOpen' = [clientOpen EXCEPT ![i] =
                           ClientOpenAfter(UnsupportedProtocol)]
                     /\ pc' = [pc EXCEPT ![i] = "done"]
                     /\ UNCHANGED requests
  /\ UNCHANGED <<ctx, args, pending>>

Waiting(i) == pc[i] = "awaiting" /\ pending[i] = NoEvent

Deliver(i, event) ==
  /\ Waiting(i)
  /\ pending' = [pending EXCEPT ![i] = event]
  /\ UNCHANGED <<pc, ctx, args, frame, clientOpen, requests, outcome>>

\* the backend answers
Respond(i, status, text) ==
  Deliver(i, [ev |-> "response", status |-> status, text |-> text])

\* the timeout of the request passes with no answer
DeadlineElapses(i) ==
  Deliver(i, [ev |-> "raise", cls |-> "ReadTimeout", msg |-> <<>>])

\* the connection fails
TransportFails(i) ==
  Deliver(i, [ev |-> "raise", cls |-> "ConnectError",
              msg |-> <<"All connection attempts failed">>])

\* the transport cancels the task of the invocation
Cancel(i) ==
  Deliver(i, [ev |-> "raise", cls |-> "CancelledError", msg |-> <<>>])

\* what the body of the async with does with the event that ends the await
Body(a, fr, event) ==
  IF event.ev = "raise" THEN Raise(event.cls, event.msg)
  ELSE IF a.tool = "get" THEN GetOnResponse(a.issue_key, event.status, event.text)
  ELSE CreateOnResponse(fr.base_url, a.summary, a.issue_type, event.status, event.text)

\* lines 38-65 and 139-160: the coroutine resumes and runs to its end
Resume(i) ==
  /\ pc[i] = "awaiting"
  /\ pending[i] # NoEvent
  /\ LET bodyOut == Body(args[i], frame[i], pending[i]) IN
       /\ clientOpen' = [clientOpen EXCEPT ![i] = ClientOpenAfter(bodyOut)]
       /\ outcome' = [outcome EXCEPT ![i] = Except(args[i].tool, bodyOut)]
  /\ pc' = [pc EXCEPT ![i] = "done"]
  /\ UNCHANGED <<ctx, args, frame, requests, pending>>

Next ==
  \E i \in Inv :
    \/ \E h \in ConcHeaders, a \in ConcArgs : Receive(i, h, a)
    \/ Start(i)
    \/ \E r \in ConcResponses : Respond(i, r[1], r[2])
    \/ DeadlineElapses(i)
    \/ TransportFails(i)
    \/ Cancel(i)
    \/ Resume(i)

Spec == Init /\ [][Next]_vars

\* the concurrent invocations of one tenant, for the liveness of the await
LiveNext ==
  \E i \in Inv :
    \/ \E a \in ConcArgs : Receive(i, TenantA, a)
    \/ Start(i)
    \/ Respond(i, 200, TextKeyOnly)
    \/ DeadlineElapses(i)
    \/ TransportFails(i)
    \/ Cancel(i)
    \/ Resume(i)

\* the event loop runs every coroutine that is ready, and the timeout of a
\* request with no answer does pass
FairSpec ==
  /\ Init /\ [][LiveNext]_vars
  /\ \A i \in Inv : WF_vars(Start(i)) /\ WF_vars(Resume(i))
                    /\ WF_vars(DeadlineElapses(i))

\* one invocation at a time, over the wider inputs
SeqNext ==
  \/ \E h \in SeqHeaders, a \in SeqArgs : Receive(1, h, a)
  \/ Start(1)
  \/ \E r \in SeqResponses : Respond(1, r[1], r[2])
  \/ DeadlineElapses(1)
  \/ TransportFails(1)
  \/ Cancel(1)
  \/ Resume(1)

SeqSpec == Init /\ [][SeqNext]_vars

\* ----------------------------------------------------- reading an outcome
IsFailure(out) == out.kind = "return" /\ out.value # <<>> /\ out.value[1] = "(x)"
IsSuccess(out) ==
  out.kind = "return" /\ out.value # <<>> /\ out.value[1] \in {"(issue)", "(ok)"}
\* a result string: one of the two shapes, and text only
IsResult(out) ==
  /\ IsFailure(out) \/ IsSuccess(out)
  /\ \A k \in 1..Len(out.value) : out.value[k] \in STRING

Answered(i) == pc[i] = "done" /\ pending[i].ev = "response"
Cancelled(i) == pending[i].ev = "raise" /\ pending[i].cls = "CancelledError"
TimedOut(i) == pending[i].ev = "raise" /\ pending[i].cls \in TimeoutClasses

\* the header is absent or empty
Lacks(h, n) == n \notin DOMAIN h \/ h[n] = <<>>
\* the lacking headers in the declared order url, email, token
ExpectedMissing(h) ==
  (IF Lacks(h, "x-jira-url") THEN <<"x-jira-url">> ELSE <<>>)
    \o (IF Lacks(h, "x-jira-email") THEN <<"x-jira-email">> ELSE <<>>)
    \o (IF Lacks(h, "x-jira-token") THEN <<"x-jira-token">> ELSE <<>>)
\* the header names a message mentions, in the order it mentions them
NamesIn(msg) ==
  SelectSeq(msg, LAMBDA t : t \in {"x-jira-url", "x-jira-email", "x-jira-token"})

\* u without its trailing "/" characters
ExpectedBase(u) ==
  CHOOSE p \in {SubSeq(u, 1, k) : k \in 0..Len(u)} :
    /\ p = <<>> \/ p[Len(p)] # "/"
    /\ \A k \in (Len(p) + 1)..Len(u) : u[k] = "/"

IsPrefix(p, s) == Len(p) <= Len(s) /\ SubSeq(s, 1, Len(p)) = p

\* C1: in get_jira_issue and create_jira_issue alike, an invocation whose
\* request lacks any of x-jira-url, x-jira-email, x-jira-token (absent or
\* empty) issues no HTTP request and returns a Failure that names exactly the
\* lacking headers, in the order url, email, token; a request is issued only
\* when all three are present and non-empty.
C1_MissingHeaders ==
  \A i \in Inv :
    /\ (pc[i] # "idle" /\ ExpectedMissing(ctx[i]) # <<>>) => requests[i] = <<>>
    /\ (pc[i] = "done" /\ ExpectedMissing(ctx[i]) # <<>>) =>
         /\ IsFailure(outcome[i])
         /\ NamesIn(outcome[i].value) = ExpectedMissing(ctx[i])
    /\ requests[i] # <<>> => ExpectedMissing(ctx[i]) = <<>>

C1_Witness ==
  /\ pc[1] = "done"
  /\ args[1].tool = "create"
  /\ ExpectedMissing(ctx[1]) = <<"x-jira-url", "x-jira-token">>
  /\ "x-jira-url" \notin DOMAIN ctx[1]
  /\ "x-jira-token" \in DOMAIN ctx[1]
  /\ NamesIn(outcome[1].value) = <<"x-jira-url", "x-jira-token">>
  /\ requests[1] = <<>>

\* C2 as claimed: every invocation that has ended, the cancelled ones
\* included, has returned a result string and raised nothing.
C2_Original ==
  \A i \in Inv : pc[i] = "done" => IsResult(outcome[i])

\* C2 as amended: an invocation has no outcome before it ends; one that the
\* transport did not cancel ends by returning one result string, Success or
\* Failure, whatever the headers, the status, the body or the exception; one
\* cancelled at its HTTP call ends by raising CancelledError and returns
\* nothing.
C2_OneResultUnlessCancelled ==
  \A i \in Inv :
    /\ pc[i] # "done" => outcome[i] = NoOutcome
    /\ (pc[i] = "done" /\ ~Cancelled(i)) => IsResult(outcome[i])
    /\ (pc[i] = "done" /\ Cancelled(i)) =>
         outcome[i] = Raise("CancelledError", <<>>)

C2_Witness ==
  /\ pc[1] = "done"
  /\ pending[1].ev = "response" /\ pending[1].status = 200
  /\ pending[1].text = TextIssueNullStatus
  /\ args[1].tool = "get"
  /\ IsFailure(outcome[1])
  /\ HasSub(outcome[1].value, <<" Unexpected error: ">> \o NoGetMsg(JNull))

RECURSIVE SumLen(_, _)
SumLen(f, S) ==
  IF S = {} THEN 0
  ELSE LET x == CHOOSE y \in S : TRUE IN Len(f[x]) + SumLen(f, S \ {x})

\* C3: an invocation issues at most one HTTP request, also after its attempt
\* failed, so the requests never outnumber the invocations.
C3_AtMostOneRequest ==
  /\ \A i \in Inv : Len(requests[i]) <= 1
  /\ SumLen(requests, Inv) <= Cardinality({i \in Inv : pc[i] # "idle"})

C3_Witness ==
  /\ pc[1] = "done" /\ Answered(1) /\ pending[1].status = 500
  /\ IsFailure(outcome[1])
  /\ Len(requests[1]) = 1
  /\ pc[2] = "done" /\ TimedOut(2)
  /\ Len(requests[2]) = 1

\* C4: a client is open only while its invocation is at its HTTP call; once
\* an invocation has ended, by return, error status, timeout, exception or
\* cancellation, its client is closed; a cancelled invocation ends without
\* an answer to its call.
C4_ClientReleased ==
  \A i \in Inv :
    /\ clientOpen[i] => pc[i] = "awaiting"
    /\ pc[i] = "done" => ~clientOpen[i]
    /\ (pc[i] = "done" /\ Cancelled(i)) => outcome[i].kind = "raise"

C4_Witness ==
  /\ pc[1] = "done" /\ Cancelled(1) /\ requests[1] # <<>> /\ ~clientOpen[1]
  /\ pc[2] = "done" /\ TimedOut(2) /\ requests[2] # <<>> /\ ~clientOpen[2]

\* the body is an issue get_jira_issue can render: a JSON object with a key
\* and with fields an object, whose status, if any, is an object and whose
\* assignee, if not empty, is an object
RenderableIssue(text) ==
  LET p == Json(text) IN
  /\ p.kind = "return"
  /\ p.value.j = "object"
  /\ {"key", "fields"} \subseteq DOMAIN p.value.v
  /\ LET f == p.value.v["fields"] IN
       /\ f.j = "object"
       /\ "status" \in DOMAIN f.v => f.v["status"].j = "object"
       /\ ("assignee" \in DOMAIN f.v /\ JTruthy(f.v["assignee"])) =>
            f.v["assignee"].j = "object"

GetAnswered(i) == Answered(i) /\ args[i].tool = "get"
StatusExcerpt(i, n) ==
  /\ IsFailure(outcome[i])
  /\ HasSub(outcome[i].value,
            <<ToString(pending[i].status)>> \o <<": ">> \o Take(pending[i].text, n))

\* C5 as claimed: of get_jira_issue, 404 gives a Failure with "not found",
\* 401 a Failure with "Authentication failed", every 2xx status a Success,
\* every other status a Failure with the status code and the first 200
\* characters of the body.
C5_Original ==
  \A i \in Inv : GetAnswered(i) =>
    LET st == pending[i].status IN
    /\ st = 404 => IsFailure(outcome[i]) /\ Contains(outcome[i].value, "not found")
    /\ st = 401 =>
         IsFailure(outcome[i]) /\ Contains(outcome[i].value, "Authentication failed")
    /\ (st >= 200 /\ st <= 299) => IsSuccess(outcome[i])
    /\ (st \notin {404, 401} /\ (st < 200 \/ st > 299)) => StatusExcerpt(i, GetExcerpt)

\* C5 as amended: of get_jira_issue, 404 gives a Failure with "not found",
\* 401 a Failure with "Authentication failed"; status 200 alone leads to
\* parsing the body, with a Success that shows the key when the body is a
\* renderable issue and a Failure "Unexpected error" when it is not; every
\* other status, the other 2xx included, gives a Failure with the status
\* code and the first 200 characters of the body.
C5_GetClassifies ==
  \A i \in Inv : GetAnswered(i) =>
    LET st == pending[i].status
        tx == pending[i].text
    IN
    /\ st = 404 => IsFailure(outcome[i]) /\ Contains(outcome[i].value, "not found")
    /\ st = 401 =>
         IsFailure(outcome[i]) /\ Contains(outcome[i].value, "Authentication failed")
    /\ (st = 200 /\ RenderableIssue(tx)) =>
         /\ IsSuccess(outcome[i])
         /\ HasSub(outcome[i].value, Fmt(Json(tx).value.v["key"]))
    /\ (st = 200 /\ ~RenderableIssue(tx)) =>
         IsFailure(outcome[i]) /\ Contains(outcome[i].value, " Unexpected error: ")
    /\ st \notin {404, 401, 200} => StatusExcerpt(i, GetExcerpt)

C5_Witness ==
  /\ GetAnswered(1)
  /\ pending[1].status = 204
  /\ pending[1].text = Rep("x", GetExcerpt + 1)
  /\ outcome[1] = Ret(<<"(x)", " JIRA error ", "204", ": ">> \o Rep("x", GetExcerpt))

CreateAnswered(i) == Answered(i) /\ args[i].tool = "create"
CreateSent(i) == args[i].tool = "create" /\ requests[i] # <<>>

\* the body is a JSON object with a key
HasKey(text) ==
  LET p == Json(text) IN
  p.kind = "return" /\ p.value.j = "object" /\ "key" \in DOMAIN p.value.v

\* the Success of create_jira_issue shows the key of the body and the
\* browse URL under the x-jira-url header without its trailing slashes
ShowsKeyAndLink(i) ==
  LET key == Fmt(Json(pending[i].text).value.v["key"]) IN
  /\ IsSuccess(outcome[i])
  /\ HasSub(outcome[i].value, <<"(issue) **Key:** ">> \o key \o <<"\n">>)
  /\ HasSub(outcome[i].value,
            <<"(link) **Link:** ">> \o ExpectedBase(ctx[i]["x-jira-url"])
              \o <<"/", "browse", "/">> \o key \o <<"\n">>)

CodeAndExcerpt(i, n) ==
  /\ IsFailure(outcome[i])
  /\ HasSub(outcome[i].value,
            <<ToString(pending[i].status), "\n">> \o Take(pending[i].text, n))
  /\ Len(outcome[i].value) <= 4 + n

\* C6 as claimed: create_jira_issue returns Success exactly when the status
\* is 200 or 201, the Success showing the key and the browse URL; any other
\* status gives a Failure with the status code and the first 300 characters
\* of the body.
C6_Original ==
  \A i \in Inv : CreateAnswered(i) =>
    /\ IsSuccess(outcome[i]) <=> pending[i].status \in {200, 201}
    /\ IsSuccess(outcome[i]) => ShowsKeyAndLink(i)
    /\ pending[i].status \notin {200, 201} => CodeAndExcerpt(i, CreateExcerpt)

\* C6 as amended: create_jira_issue returns Success exactly when the status
\* is 200 or 201 and the body is a JSON object with a key, the Success
\* showing that key and the browse URL; status 200 or 201 with any other
\* body gives a Failure "Unexpected error"; any other status gives a Failure
\* with the status code and the first 300 characters of the body.
C6_CreateClassifies ==
  \A i \in Inv : CreateAnswered(i) =>
    LET ok == pending[i].status \in {200, 201} IN
    /\ IsSuccess(outcome[i]) <=> (ok /\ HasKey(pending[i].text))
    /\ IsSuccess(outcome[i]) => ShowsKeyAndLink(i)
    /\ (ok /\ ~HasKey(pending[i].text)) =>
         IsFailure(outcome[i]) /\ Contains(outcome[i].value, " Unexpected error: ")
    /\ ~ok => CodeAndExcerpt(i, CreateExcerpt)

C6_Witness ==
  /\ CreateAnswered(1)
  /\ pending[1].status = 201 /\ pending[1].text = TextKeyOnly
  /\ ctx[1]["x-jira-url"] = HostA \o <<"/", "/">>
  /\ IsSuccess(outcome[1])
  /\ HasSub(outcome[1].value, HostA \o <<"/", "browse", "/", "KAN-9">>)

\* C7: assignee_email never reaches the payload: the payload of a create
\* request is the one the same call without assignee_email sends, and its
\* fields are among project, summary, description, issuetype and labels.
C7_AssigneeUnused ==
  \A i \in Inv : CreateSent(i) =>
    LET a == args[i]
        sent == requests[i][1].json.v
    IN /\ DOMAIN sent.fields \subseteq
            {"project", "summary", "description", "issuetype", "labels"}
       /\ sent = BuildPayload(a.project_key, a.summary, a.description,
                               a.issue_type, None, a.labels)

\* C8: every request an invocation issues goes to the URL under its own
\* x-jira-url header and carries its own x-jira-email and x-jira-token,
\* whatever the other invocations carry and wherever they stand.
C8_OwnCredentials ==
  \A i \in Inv : \A k \in 1..Len(requests[i]) :
    LET req == requests[i][k] IN
    /\ {"x-jira-url", "x-jira-email", "x-jira-token"} \subseteq DOMAIN ctx[i]
    /\ req.auth = <<ctx[i]["x-jira-email"], ctx[i]["x-jira-token"]>>
    /\ IsPrefix(ExpectedBase(ctx[i]["x-jira-url"]) \o <<"/", "rest">>, req.url)

C8_Witness ==
  /\ ctx[1] = TenantA /\ ctx[2] = TenantB
  /\ pc[1] = "awaiting" /\ pending[1] = NoEvent
  /\ pc[2] = "done" /\ requests[2] # <<>>
  /\ requests[1][1].auth = <<<<"a@x">>, <<"ta">>>>
  /\ requests[2][1].auth = <<<<"b@x">>, <<"tb">>>>
  /\ IsPrefix(HostA \o <<"/", "rest">>, requests[1][1].url)
  /\ IsPrefix(HostB \o <<"/", "rest">>, requests[2][1].url)

TimeoutFailure(i) ==
  /\ pc[i] = "done"
  /\ IsFailure(outcome[i])
  /\ Contains(outcome[i].value, "Timeout")

\* C9: a GET is sent with the 15 s timeout and a POST with the 20 s one; an
\* invocation at its HTTP call does end; and once the timeout of its request
\* has passed with no answer, it ends by returning a Failure that mentions
\* the timeout, in get_jira_issue and create_jira_issue alike.
C9_TimeoutEnds ==
  /\ [](\A i \in Inv : \A k \in 1..Len(requests[i]) :
          requests[i][k].timeout =
            (IF args[i].tool = "get" THEN GetTimeout ELSE CreateTimeout))
  /\ \A i \in Inv : (pc[i] = "awaiting") ~> (pc[i] = "done")
  /\ \A i \in Inv : (pc[i] = "awaiting" /\ TimedOut(i)) ~> TimeoutFailure(i)

C9_Witness ==
  /\ args[1].tool = "get" /\ TimedOut(1) /\ TimeoutFailure(1)
  /\ outcome[1].value = GetTimeoutMsg
  /\ args[2].tool = "create" /\ TimedOut(2) /\ TimeoutFailure(2)
  /\ outcome[2].value = CreateTimeoutMsg

\* C10: the payload of a create request has a labels field exactly when
\* labels was given and is not empty, and then the field is the list given;
\* labels = [] gives the payload that labels absent gives.
C10_LabelsIffNonEmpty ==
  \A i \in Inv : CreateSent(i) =>
    LET lb == args[i].labels
        f == requests[i][1].json.v.fields
    IN /\ "labels" \in DOMAIN f <=> (~lb.none /\ lb.v # <<>>)
       /\ "labels" \in DOMAIN f => f["labels"] = lb.v
       /\ {"project", "summary", "description", "issuetype"} \subseteq DOMAIN f

C10_Witness ==
  /\ CreateSent(1)
  /\ args[1].labels = Some(<<>>)
  /\ "labels" \notin DOMAIN requests[1][1].json.v.fields

====
